---- MODULE Spec2Model ----
(***************************************************************************)
(* A model of ao3.py: the name normalizer and relationship-tag builder,    *)
(* the search client's result-count parser, and the collection loop of     *)
(* the script body.                                                        *)
(*                                                                         *)
(* Python strings are modelled as sequences of one-character strings, so   *)
(* that split, join, comparison and concatenation are computed as Python   *)
(* computes them.                                                          *)
(***************************************************************************)
EXTENDS Integers, Sequences, FiniteSets, TLC

VARIABLES
    \* harness of the pure name/tag functions
    name1, name2,       \* the two argument strings
    called,             \* which functions have been applied to them
    rev, revrev,        \* reverse_names(name1), reverse_names(reverse_names(name1))
    tag12, tag21,       \* wrangle_relationship_tag(name1, name2) and (name2, name1)
    \* harness of get_work_count's response handling
    response,           \* what session.get returned
    outcome,            \* what get_work_count did with it
    \* the script body
    pc,                 \* position in the script
    characters,         \* rows of characters.csv, then sorted by gender
    relationships,      \* the rows of the relationships frame
    credentials,        \* whether AO3_USERNAME and AO3_PASSWORD are both set
    session,            \* "none", "anonymous" or "authenticated"
    started,
    work_counts,
    output_filename,
    pending,            \* the search query of the request in flight, or NoQuery
    files,              \* the files written by to_csv, in order
    error,              \* the exception that ended the script, or "none"
    log                 \* history: the sleeps, search requests and responses so far

tagVars == <<name1, name2, called, rev, revrev, tag12, tag21>>
parseVars == <<response, outcome>>
mainVars == <<pc, characters, relationships, credentials, session, started,
              work_counts, output_filename, pending, files, error, log>>
vars == <<tagVars, parseVars, mainVars>>

----------------------------------------------------------------------------
(* Bounds of the model *)

\* longest synthetic name over NameAlphabet
MaxLen == 4

\* longest synthetic heading text over TextAlphabet
MaxText == 4

\* most rows of characters.csv when only the enumeration is run
MaxRoster == 3

\* most rows of characters.csv when the whole script is run
MaxRunRoster == 3

----------------------------------------------------------------------------
(* Python str primitives *)

\* printable ASCII in code point order, starting at code point 32; the double
\* quote, the backslash and the backtick are held by placeholders that no str contains
Ascii ==
    <<" ", "!", "QUOTE", "#", "$", "%", "&", "'", "(", ")", "*", "+", ",", "-",
      ".", "/", "0", "1", "2", "3", "4", "5", "6", "7", "8", "9", ":", ";",
      "<", "=", ">", "?", "@", "A", "B", "C", "D", "E", "F", "G", "H", "I",
      "J", "K", "L", "M", "N", "O", "P", "Q", "R", "S", "T", "U", "V", "W",
      "X", "Y", "Z", "[", "BACKSLASH", "]", "^", "_", "BACKTICK", "a", "b", "c", "d", "e",
      "f", "g", "h", "i", "j", "k", "l", "m", "n", "o", "p", "q", "r", "s",
      "t", "u", "v", "w", "x", "y", "z", "{", "|", "}", "~">>

\* ord(c)
ord == [c \in {Ascii[i] : i \in 1..Len(Ascii)} |->
           31 + (CHOOSE i \in 1..Len(Ascii) : Ascii[i] = c)]

\* s < t on str: lexicographic by code point, a proper prefix is smaller
StrLess(s, t) ==
    \/ \E i \in 1..Len(s) :
          /\ i <= Len(t)
          /\ \A j \in 1..(i - 1) : s[j] = t[j]
          /\ ord[s[i]] < ord[t[i]]
    \/ /\ Len(s) < Len(t)
       /\ \A j \in 1..Len(s) : s[j] = t[j]

\* str.isspace() of one character, over printable ASCII
IsSpace(c) == c = " "

RECURSIVE SplitFrom(_, _, _, _)
SplitFrom(s, i, cur, acc) ==
    IF i > Len(s)
    THEN IF cur = <<>> THEN acc ELSE Append(acc, cur)
    ELSE IF IsSpace(s[i])
         THEN SplitFrom(s, i + 1, <<>>, IF cur = <<>> THEN acc ELSE Append(acc, cur))
         ELSE SplitFrom(s, i + 1, Append(cur, s[i]), acc)

\* s.split(): the maximal runs of non-whitespace, in order
split(s) == SplitFrom(s, 1, <<>>, <<>>)

\* list.reverse()
reverse(l) == [i \in 1..Len(l) |-> l[Len(l) + 1 - i]]

RECURSIVE join(_, _)
\* sep.join(l)
join(sep, l) ==
    IF l = <<>> THEN <<>>
    ELSE IF Len(l) = 1 THEN l[1]
    ELSE l[1] \o sep \o join(sep, Tail(l))

----------------------------------------------------------------------------
(* Module constants of ao3.py *)

champions == {
    <<"C", "a", "i", "t", "l", "y", "n">>,
    <<"E", "k", "k", "o">>,
    <<"H", "e", "i", "m", "e", "r", "d", "i", "n", "g", "e", "r">>,
    <<"J", "a", "y", "c", "e">>,
    <<"J", "i", "n", "x">>,
    <<"S", "i", "n", "g", "e", "d">>,
    <<"V", "i">>,
    <<"V", "i", "k", "t", "o", "r">> }

special_case_names == {
    <<"B", "r", "o", "t", "h", "e", "l", " ", "G", "i", "r", "l">>,
    <<"L", "o", "c", "a", "l", " ", "C", "u", "i", "s", "i", "n", "e", " ", "G", "u", "y">> }

\* ' (League of Legends)'
LeagueSuffix ==
    <<" ", "(", "L", "e", "a", "g", "u", "e", " ", "o", "f", " ",
      "L", "e", "g", "e", "n", "d", "s", ")">>

\* ' (Arcane: League of Legends)'
ArcaneSuffix ==
    <<" ", "(", "A", "r", "c", "a", "n", "e", ":", " ", "L", "e", "a", "g", "u", "e",
      " ", "o", "f", " ", "L", "e", "g", "e", "n", "d", "s", ")">>

----------------------------------------------------------------------------
(* Name normalizer and tag builder *)

wrangle_fandom_tag(name) ==
    IF name \in champions THEN LeagueSuffix ELSE ArcaneSuffix

\* mutant: the special-case list is not consulted
reverse_names_no_special(name) == join(<<" ">>, reverse(split(name)))

reverse_names(name) ==
    IF name \in special_case_names
    THEN name
    ELSE join(<<" ">>, reverse(split(name)))

\* mutant: a name counts as multiple only from three words on
is_multiple_name_off_by_one(name) ==
    IF name \in special_case_names
    THEN FALSE
    ELSE Len(split(name)) > 2

\* mutant: the special-case list is not consulted
is_multiple_name_no_special(name) == Len(split(name)) > 1

is_multiple_name(name) ==
    IF name \in special_case_names
    THEN FALSE
    ELSE Len(split(name)) > 1

\* sorted((a, b), key=reverse_names): stable, so b comes first only when
\* its key is strictly smaller
sorted_by_reverse_names(a, b) ==
    IF StrLess(reverse_names(b), reverse_names(a)) THEN <<b, a>> ELSE <<a, b>>

\* f'{n1}{fandom1}/{n2}{fandom2}'
FormatTag(n1, fandom1, n2, fandom2) == n1 \o fandom1 \o <<"/">> \o n2 \o fandom2

\* mutant: the names are not sorted
wrangle_relationship_tag_unsorted(a, b) ==
    LET f1 == wrangle_fandom_tag(a)
        f2 == wrangle_fandom_tag(b)
        multi == is_multiple_name(a) \/ is_multiple_name(b)
    IN  IF f1 = f2
        THEN FormatTag(a, <<>>, b, IF multi THEN <<>> ELSE f2)
        ELSE FormatTag(a, IF is_multiple_name(a) THEN <<>> ELSE f1,
                       b, IF is_multiple_name(b) THEN <<>> ELSE f2)

wrangle_relationship_tag(a, b) ==
    LET s == sorted_by_reverse_names(a, b)
        n1 == s[1]
        n2 == s[2]
        f1 == wrangle_fandom_tag(n1)
        f2 == wrangle_fandom_tag(n2)
    IN  IF f1 = f2
        THEN FormatTag(n1, <<>>, n2,
                       IF is_multiple_name(n1) \/ is_multiple_name(n2) THEN <<>> ELSE f2)
        ELSE FormatTag(n1, IF is_multiple_name(n1) THEN <<>> ELSE f1,
                       n2, IF is_multiple_name(n2) THEN <<>> ELSE f2)

----------------------------------------------------------------------------
(* Inputs of the name/tag harness *)

Vi == <<"V", "i">>
Jayce == <<"J", "a", "y", "c", "e">>
Silco == <<"S", "i", "l", "c", "o">>
MelMedarda == <<"M", "e", "l", " ", "M", "e", "d", "a", "r", "d", "a">>
BrothelGirl == <<"B", "r", "o", "t", "h", "e", "l", " ", "G", "i", "r", "l">>
GirlBrothel == <<"G", "i", "r", "l", " ", "B", "r", "o", "t", "h", "e", "l">>
LocalCuisineGuy ==
    <<"L", "o", "c", "a", "l", " ", "C", "u", "i", "s", "i", "n", "e", " ", "G", "u", "y">>

RosterNames == {Vi, Jayce, Silco, MelMedarda, BrothelGirl, GirlBrothel, LocalCuisineGuy}

NameAlphabet == {" ", "a", "b"}

\* every str over the alphabet of length at most n
StringsUpTo(alphabet, n) == UNION {[1..k -> alphabet] : k \in 0..n}

Names == RosterNames \cup StringsUpTo(NameAlphabet, MaxLen)

TagInit ==
    /\ name1 \in Names
    /\ name2 \in Names
    /\ called = {}
    /\ rev = <<>>
    /\ revrev = <<>>
    /\ tag12 = <<>>
    /\ tag21 = <<>>

\* reverse_names applied to name1, and again to its own output
CallReverseNames ==
    /\ "reverse_names" \notin called
    /\ called' = called \cup {"reverse_names"}
    /\ rev' = reverse_names(name1)
    /\ revrev' = reverse_names(reverse_names(name1))
    /\ UNCHANGED <<name1, name2, tag12, tag21, parseVars, mainVars>>

\* wrangle_relationship_tag applied to the two names in both argument orders
CallWrangleRelationshipTag ==
    /\ "wrangle_relationship_tag" \notin called
    /\ called' = called \cup {"wrangle_relationship_tag"}
    /\ tag12' = wrangle_relationship_tag(name1, name2)
    /\ tag21' = wrangle_relationship_tag(name2, name1)
    /\ UNCHANGED <<name1, name2, rev, revrev, parseVars, mainVars>>


TagNext == CallReverseNames \/ CallWrangleRelationshipTag

----------------------------------------------------------------------------
(* Search client: get_work_count's handling of the response *)

\* A response as get_work_count reads it: the status code, whether the body
\* holds <div id="main">, whether that div holds <h3 class="heading">, and
\* the heading's get_text().
Response(status, main, heading, text) ==
    [status |-> status, main |-> main, heading |-> heading, text |-> text]

NoResponse == Response(0, FALSE, FALSE, <<>>)

Outcome(kind, count) == [kind |-> kind, count |-> count]

NoOutcome == Outcome("none", -1)

\* the class [0-9,] of work_count_pattern
IsCountChar(c) == c \in {"0", "1", "2", "3", "4", "5", "6", "7", "8", "9", ","}

RECURSIVE MatchLen(_, _)
\* greedy [0-9,]+ anchored at position i: how many characters it takes
MatchLen(text, i) ==
    IF i <= Len(text) /\ IsCountChar(text[i]) THEN 1 + MatchLen(text, i + 1) ELSE 0

\* work_count_pattern.match(text): the matched prefix, <<>> standing for None
work_count_match(text) == SubSeq(text, 1, MatchLen(text, 1))

\* s.replace(',', '')
remove_commas(s) == SelectSeq(s, LAMBDA c : c # ",")

RECURSIVE int(_)
\* int(s) of a non-empty str of decimal digits
int(s) ==
    IF s = <<>> THEN 0
    ELSE 10 * int(SubSeq(s, 1, Len(s) - 1)) + (ord[s[Len(s)]] - ord["0"])

\* The outcome of get_work_count on a response: a count, or the exception
\* raised. main_div.find on a missing div and .group on a failed match are
\* attribute accesses on None; int('') is a ValueError.
get_work_count(resp) ==
    IF resp.status = 429 THEN Outcome("RateLimitedError", -1)
    ELSE IF ~resp.main THEN Outcome("AttributeError", -1)
    ELSE IF ~resp.heading THEN Outcome("count", 0)
    ELSE LET m == work_count_match(resp.text)
             digits == remove_commas(m)
         IN  IF m = <<>> THEN Outcome("AttributeError", -1)
             ELSE IF digits = <<>> THEN Outcome("ValueError", -1)
             ELSE Outcome("count", int(digits))

Text1234Found == <<"1", ",", "2", "3", "4", " ", "F", "o", "u", "n", "d">>
Text1234 == <<"1", ",", "2", "3", "4">>

TextAlphabet == {"0", "7", ",", "x"}

Texts == {Text1234Found, Text1234} \cup StringsUpTo(TextAlphabet, MaxText)

StatusCodes == {200, 429, 503}

Responses ==
    {Response(st, FALSE, FALSE, <<>>) : st \in StatusCodes}
    \cup {Response(st, TRUE, FALSE, <<>>) : st \in StatusCodes}
    \cup {Response(st, TRUE, TRUE, t) : st \in StatusCodes, t \in Texts}

ParseInit ==
    /\ response \in Responses
    /\ outcome = NoOutcome

\* get_work_count from the point where session.get has returned
CallGetWorkCount ==
    /\ outcome = NoOutcome
    /\ outcome' = get_work_count(response)
    /\ UNCHANGED <<response, tagVars, mainVars>>

ParseNext == CallGetWorkCount

----------------------------------------------------------------------------
(* The script body: enumeration, session, collection loop, output *)

GenderF == <<"f">>
GenderM == <<"m">>
GenderOther == <<"o", "t", "h", "e", "r">>

Character(name, gender) == [name |-> name, gender |-> gender]

\* every sequence over rows of length at most n
RostersUpTo(rows, n) == UNION {[1..k -> rows] : k \in 0..n}

EnumRows == {Character(n, g) : n \in {Vi, Silco, MelMedarda},
                               g \in {GenderF, GenderM, GenderOther}}

RunRows == {Character(n, g) : n \in {Vi, Silco}, g \in {GenderF, GenderM}}

\* characters.sort_values(['gender']): the rows in some order that is
\* non-decreasing in gender; the default sort is not stable, so rows of
\* equal gender may come out in any order
SortedByGender(rows) ==
    {[i \in 1..Len(rows) |-> rows[p[i]]] :
        p \in {q \in [1..Len(rows) -> 1..Len(rows)] :
                  /\ \A i, j \in 1..Len(rows) : i # j => q[i] # q[j]
                  /\ \A i \in 1..(Len(rows) - 1) :
                        ~StrLess(rows[q[i + 1]].gender, rows[q[i]].gender)}}

RECURSIVE CombinationsFrom(_, _, _)
CombinationsFrom(rows, i, j) ==
    IF i > Len(rows) THEN <<>>
    ELSE IF j > Len(rows) THEN CombinationsFrom(rows, i + 1, i + 1)
    ELSE <<  <<rows[i], rows[j]>>  >> \o CombinationsFrom(rows, i, j + 1)

\* mutant: itertools.combinations, which leaves out the pairs (x, x)
combinations_without_replacement(rows) == CombinationsFrom(rows, 1, 2)

\* itertools.combinations_with_replacement(rows, 2)
combinations_with_replacement(rows) == CombinationsFrom(rows, 1, 1)

\* one row of the relationships frame, columns A, B, type, selfcest
Relationship(x) ==
    [A |-> x[1].name,
     B |-> x[2].name,
     type |-> x[1].gender \o <<"/">> \o x[2].gender,
     selfcest |-> x[1].name = x[2].name]

BuildRelationships(rows) ==
    LET pairs == combinations_with_replacement(rows)
    IN  [k \in 1..Len(pairs) |-> Relationship(pairs[k])]

NoQuery == <<>>

\* the value of work_search[query]: the tag in double quotes (QUOTE stands
\* for the double quote character)
SearchQuery(a, b) == <<"QUOTE">> \o wrangle_relationship_tag(a, b) \o <<"QUOTE">>

Event(ev, status) == [ev |-> ev, status |-> status]

\* the rows to_csv writes: the frame with its count column
WithCounts(rels, counts) ==
    [k \in 1..Len(rels) |->
        [A |-> rels[k].A, B |-> rels[k].B, type |-> rels[k].type,
         selfcest |-> rels[k].selfcest, count |-> counts[k]]]

\* what the collection loop may be answered with
Body0 == Response(200, TRUE, FALSE, <<>>)
Body1234 == Response(200, TRUE, TRUE, Text1234Found)
BodyNoMain == Response(200, FALSE, FALSE, <<>>)
Body429 == Response(429, FALSE, FALSE, <<>>)

LoopResponses == {Body0, Body1234, BodyNoMain, Body429}

MainInitWith(rosters) ==
    /\ pc = "start"
    /\ characters \in rosters
    /\ credentials \in BOOLEAN
    /\ relationships = <<>>
    /\ session = "none"
    /\ started = FALSE
    /\ work_counts = <<>>
    /\ output_filename = "relationships.csv"
    /\ pending = NoQuery
    /\ files = <<>>
    /\ error = "none"
    /\ log = <<>>

\* lines 190-205: read and sort the roster, build the relationships frame
ReadCharacters ==
    /\ pc = "start"
    /\ \E sorted \in SortedByGender(characters) :
          /\ characters' = sorted
          /\ relationships' = BuildRelationships(sorted)
    /\ pc' = "session"
    /\ UNCHANGED <<credentials, session, started, work_counts, output_filename,
                   pending, files, error, log, tagVars, parseVars>>

\* lines 207-223 without credentials
OpenAnonymousSession ==
    /\ pc = "session"
    /\ ~credentials
    /\ session' = "anonymous"
    /\ pc' = "loop"
    /\ UNCHANGED <<characters, relationships, credentials, started, work_counts,
                   output_filename, pending, files, error, log, tagVars, parseVars>>

\* lines 219-221, login answered with the 302 redirect
Login ==
    /\ pc = "session"
    /\ credentials
    /\ session' = "authenticated"
    /\ pc' = "loop"
    /\ UNCHANGED <<characters, relationships, credentials, started, work_counts,
                   output_filename, pending, files, error, log, tagVars, parseVars>>

\* lines 154-155: any other answer raises LoginError, which nothing catches
LoginRejected ==
    /\ pc = "session"
    /\ credentials
    /\ error' = "LoginError"
    /\ pc' = "failed"
    /\ UNCHANGED <<characters, relationships, credentials, session, started,
                   work_counts, output_filename, pending, files, log,
                   tagVars, parseVars>>

\* mutant: the pause is taken before the first request too
PaceAlways ==
    /\ pc = "loop"
    /\ Len(work_counts) < Len(relationships)
    /\ log' = Append(log, Event("sleep", 0))
    /\ started' = TRUE
    /\ pc' = "request"
    /\ UNCHANGED <<characters, relationships, credentials, session, work_counts,
                   output_filename, pending, files, error, tagVars, parseVars>>

\* lines 227-232: the next pair is taken; sleep unless it is the first
Pace ==
    /\ pc = "loop"
    /\ Len(work_counts) < Len(relationships)
    /\ IF started
       THEN log' = Append(log, Event("sleep", 0)) /\ UNCHANGED started
       ELSE started' = TRUE /\ UNCHANGED log
    /\ pc' = "request"
    /\ UNCHANGED <<characters, relationships, credentials, session, work_counts,
                   output_filename, pending, files, error, tagVars, parseVars>>

\* lines 168-170: the search request for the current pair is sent
SendRequest ==
    /\ pc = "request"
    /\ LET r == relationships[Len(work_counts) + 1]
       IN  pending' = SearchQuery(r.A, r.B)
    /\ log' = Append(log, Event("request", 0))
    /\ pc' = "await"
    /\ UNCHANGED <<characters, relationships, credentials, session, started,
                   work_counts, output_filename, files, error, tagVars, parseVars>>

\* lines 172-185, 236-237: the response parses to a count, which is appended
ReceiveCount ==
    /\ pc = "await"
    /\ \E resp \in LoopResponses :
          /\ get_work_count(resp).kind = "count"
          /\ work_counts' = Append(work_counts, get_work_count(resp).count)
          /\ log' = Append(log, Event("response", resp.status))
    /\ pending' = NoQuery
    /\ pc' = "loop"
    /\ UNCHANGED <<characters, relationships, credentials, session, started,
                   output_filename, files, error, tagVars, parseVars>>

\* mutant: the rate-limit signal is swallowed, a zero is recorded and the
\* loop goes on
ReceiveRateLimitedSwallowed ==
    /\ pc = "await"
    /\ \E resp \in LoopResponses :
          /\ get_work_count(resp).kind = "RateLimitedError"
          /\ log' = Append(log, Event("response", resp.status))
    /\ work_counts' = Append(work_counts, 0)
    /\ pending' = NoQuery
    /\ pc' = "loop"
    /\ UNCHANGED <<characters, relationships, credentials, session, started,
                   output_filename, files, error, tagVars, parseVars>>

\* lines 172-173, 238-241: RateLimitedError is caught, the output name
\* becomes temp.csv and the loop is left
ReceiveRateLimited ==
    /\ pc = "await"
    /\ \E resp \in LoopResponses :
          /\ get_work_count(resp).kind = "RateLimitedError"
          /\ log' = Append(log, Event("response", resp.status))
    /\ output_filename' = "temp.csv"
    /\ pending' = NoQuery
    /\ pc' = "broke"
    /\ UNCHANGED <<characters, relationships, credentials, session, started,
                   work_counts, files, error, tagVars, parseVars>>

\* lines 176-181: any other exception of get_work_count is not caught
ReceiveUnparsable ==
    /\ pc = "await"
    /\ \E resp \in LoopResponses :
          /\ get_work_count(resp).kind \in {"AttributeError", "ValueError"}
          /\ error' = get_work_count(resp).kind
          /\ log' = Append(log, Event("response", resp.status))
    /\ pending' = NoQuery
    /\ pc' = "failed"
    /\ UNCHANGED <<characters, relationships, credentials, session, started,
                   work_counts, output_filename, files, tagVars, parseVars>>

\* the loop is over: every pair was taken, or break was reached
LoopOver ==
    \/ pc = "loop" /\ Len(work_counts) = Len(relationships)
    \/ pc = "broke"

\* lines 243-244: the count column is set and the frame is written
WriteOutput ==
    /\ LoopOver
    /\ Len(work_counts) = Len(relationships)
    /\ files' = Append(files, [name |-> output_filename,
                               rows |-> WithCounts(relationships, work_counts)])
    /\ pc' = "done"
    /\ UNCHANGED <<characters, relationships, credentials, session, started,
                   work_counts, output_filename, pending, error, log,
                   tagVars, parseVars>>

\* line 243: a column of another length than the frame is a ValueError,
\* which nothing catches; to_csv is not reached
SetCountColumnFails ==
    /\ LoopOver
    /\ Len(work_counts) # Len(relationships)
    /\ error' = "ValueError"
    /\ pc' = "failed"
    /\ UNCHANGED <<characters, relationships, credentials, session, started,
                   work_counts, output_filename, pending, files, log,
                   tagVars, parseVars>>

EnumNext == ReadCharacters

MainNext ==
    \/ ReadCharacters
    \/ OpenAnonymousSession
    \/ Login
    \/ LoginRejected
    \/ Pace
    \/ SendRequest
    \/ ReceiveCount
    \/ ReceiveRateLimited
    \/ ReceiveUnparsable
    \/ WriteOutput
    \/ SetCountColumnFails

----------------------------------------------------------------------------
(* Specifications *)

TagIdle ==
    /\ name1 = <<>>
    /\ name2 = <<>>
    /\ called = {}
    /\ rev = <<>>
    /\ revrev = <<>>
    /\ tag12 = <<>>
    /\ tag21 = <<>>

ParseIdle ==
    /\ response = NoResponse
    /\ outcome = NoOutcome

MainIdle == MainInitWith({<<>>}) /\ ~credentials

\* the name normalizer and tag builder on every pair of Names
TagSpecInit == TagInit /\ ParseIdle /\ MainIdle
TagSpec == TagSpecInit /\ [][TagNext]_vars

\* get_work_count on every response of Responses
ParseSpecInit == ParseInit /\ TagIdle /\ MainIdle
ParseSpec == ParseSpecInit /\ [][ParseNext]_vars

\* the enumeration alone, on rosters of up to MaxRoster rows
EnumSpecInit == MainInitWith(RostersUpTo(EnumRows, MaxRoster)) /\ TagIdle /\ ParseIdle
EnumSpec == EnumSpecInit /\ [][EnumNext]_vars

\* the whole script, on rosters of up to MaxRunRoster rows
MainSpecInit == MainInitWith(RostersUpTo(RunRows, MaxRunRoster)) /\ TagIdle /\ ParseIdle
MainSpec == MainSpecInit /\ [][MainNext]_vars

----------------------------------------------------------------------------
(* Vocabulary of the claims, stated without the functions under check *)

\* the number of words of a name: the positions where a word starts
WordCount(n) ==
    Cardinality({i \in 1..Len(n) : n[i] # " " /\ (i = 1 \/ n[i - 1] = " ")})

\* more than one space-separated token and not exception-listed
MultiWord(n) == WordCount(n) > 1 /\ n \notin special_case_names

\* words separated by single spaces, no leading or trailing whitespace
SingleSpaced(n) ==
    /\ Len(n) > 0 => (n[1] # " " /\ n[Len(n)] # " ")
    /\ \A i \in 1..(Len(n) - 1) : ~(n[i] = " " /\ n[i + 1] = " ")

\* the fandom suffix that belongs to a name
OwnSuffix(n) == IF n \in champions THEN LeagueSuffix ELSE ArcaneSuffix

\* a name as it stands in a cross-fandom tag
CrossFandomForm(n) == IF MultiWord(n) THEN n ELSE n \o OwnSuffix(n)

Slash == <<"/">>

ReverseNamesCalled == "reverse_names" \in called
WrangleCalled == "wrangle_relationship_tag" \in called

RateLimitSeen == \E i \in 1..Len(log) : log[i].ev = "response" /\ log[i].status = 429

RunEnded == pc \in {"done", "failed"}

Canonical == "relationships.csv"
Partial == "temp.csv"

----------------------------------------------------------------------------
(* Claims *)

\* C1: when a search request is answered with 429 after k pairs were
\* fetched, the run ends having written exactly one file, temp.csv, holding
\* exactly the k rows collected before the abort, in enumeration order, each
\* with its fetched count.
C1_AbortWritesPartialFile ==
    (RateLimitSeen /\ RunEnded) =>
        /\ Len(files) = 1
        /\ files[1].name = Partial
        /\ files[1].rows =
              WithCounts(SubSeq(relationships, 1, Len(work_counts)), work_counts)

\* C2: relationships.csv is written only after every enumerated pair has
\* been fetched successfully, and then holds one row per pair with its
\* count; a run aborted by the rate limit never writes relationships.csv;
\* at most one file is written per run.
C2_CanonicalOnlyWhenCompleted ==
    /\ Len(files) <= 1
    /\ \A i \in 1..Len(files) :
          files[i].name = Canonical =>
              /\ ~RateLimitSeen
              /\ Cardinality({j \in 1..Len(log) :
                     log[j].ev = "response" /\ log[j].status # 429})
                   = Len(relationships)
              /\ Len(files[i].rows) = Len(relationships)
              /\ \A k \in 1..Len(relationships) :
                    /\ files[i].rows[k].A = relationships[k].A
                    /\ files[i].rows[k].B = relationships[k].B
                    /\ files[i].rows[k].type = relationships[k].type
                    /\ files[i].rows[k].selfcest = relationships[k].selfcest
                    /\ files[i].rows[k].count = work_counts[k]
    /\ RateLimitSeen => \A i \in 1..Len(files) : files[i].name # Canonical

\* C2 witness: a completed run of three pairs has written relationships.csv
C2_Witness ==
    /\ pc = "done"
    /\ Len(relationships) = 3
    /\ Len(files) = 1
    /\ files[1].name = Canonical
    /\ files[1].rows[2].count = 1234

\* C3: wrangle_relationship_tag(x, y) = wrangle_relationship_tag(y, x) for
\* all names x and y, names of equal sort key included.
C3_TagSymmetric == WrangleCalled => tag12 = tag21

\* C4 as claimed: reverse_names(reverse_names(n)) = n for every name n, and
\* reverse_names(n) = n for every exception-listed name.
C4_ReverseNamesInvolution ==
    ReverseNamesCalled =>
        /\ revrev = name1
        /\ name1 \in special_case_names => rev = name1

\* C4 as amended: reverse_names(n) = n for every exception-listed name, and
\* reverse_names(reverse_names(n)) = n for every name n that is
\* exception-listed, or whose words are separated by single spaces with no
\* leading or trailing whitespace and whose word-reversal is not
\* exception-listed.
C4_ReverseNamesInvolutionWhenNormalised ==
    ReverseNamesCalled =>
        /\ name1 \in special_case_names => (rev = name1 /\ revrev = name1)
        /\ (SingleSpaced(name1) /\ rev \notin special_case_names) => revrev = name1

\* C4 witness: a two-word name is reversed and reversed back
C4_Witness ==
    /\ ReverseNamesCalled
    /\ name1 = MelMedarda
    /\ rev = <<"M", "e", "d", "a", "r", "d", "a", " ", "M", "e", "l">>
    /\ revrev = MelMedarda

\* C5 as claimed: the tag for ("Vi", "Jayce") is
\* "Jayce (League of Legends)/Vi (League of Legends)".
C5_ViJayceCrossFandom ==
    (WrangleCalled /\ name1 = Vi /\ name2 = Jayce) =>
        tag12 = <<"J", "a", "y", "c", "e", " ", "(", "L", "e", "a", "g", "u", "e",
                  " ", "o", "f", " ", "L", "e", "g", "e", "n", "d", "s", ")", "/",
                  "V", "i", " ", "(", "L", "e", "a", "g", "u", "e", " ", "o", "f",
                  " ", "L", "e", "g", "e", "n", "d", "s", ")">>

\* C5 as amended: the tag for ("Vi", "Jayce") orders the names as Jayce then
\* Vi and is the same-fandom form "Jayce/Vi (League of Legends)", with one
\* suffix at the end of the tag, because both names are champions.
C5_ViJayceSameFandom ==
    (WrangleCalled /\ name1 = Vi /\ name2 = Jayce) =>
        tag12 = <<"J", "a", "y", "c", "e", "/", "V", "i", " ", "(", "L", "e", "a",
                  "g", "u", "e", " ", "o", "f", " ", "L", "e", "g", "e", "n", "d",
                  "s", ")">>

\* C5 witness: the tag builder has been applied to ("Vi", "Jayce")
C5_Witness ==
    /\ WrangleCalled
    /\ name1 = Vi
    /\ name2 = Jayce
    /\ Len(tag12) = Len(Jayce) + 1 + Len(Vi) + Len(LeagueSuffix)

\* C6: for two names of which exactly one is a champion, the tag gives each
\* name that is not multi-word (exception-listed names included) its own
\* fandom suffix and each multi-word name none.
C6_CrossFandomSuffixes ==
    (WrangleCalled /\ (name1 \in champions) # (name2 \in champions)) =>
        tag12 \in {CrossFandomForm(name1) \o Slash \o CrossFandomForm(name2),
                   CrossFandomForm(name2) \o Slash \o CrossFandomForm(name1)}

\* C6 witness: two single-word names of different buckets, both suffixed
C6_Witness ==
    /\ WrangleCalled
    /\ name1 = Vi
    /\ name2 = Silco
    /\ tag12 = Silco \o ArcaneSuffix \o Slash \o Vi \o LeagueSuffix

\* C7: for two multi-word names the tag is "{first}/{second}" with no
\* suffix, first and second being the two names in reverse_names order.
C7_MultiWordNoSuffix ==
    (WrangleCalled /\ MultiWord(name1) /\ MultiWord(name2)) =>
        \/ /\ tag12 = name1 \o Slash \o name2
           /\ ~StrLess(reverse_names(name2), reverse_names(name1))
        \/ /\ tag12 = name2 \o Slash \o name1
           /\ ~StrLess(reverse_names(name1), reverse_names(name2))

\* C7 witness: two different multi-word names, the second argument first
C7_Witness ==
    /\ WrangleCalled
    /\ name1 = <<"b", " ", "a">>
    /\ name2 = MelMedarda
    /\ tag12 = MelMedarda \o Slash \o <<"b", " ", "a">>

\* the records whose names are x and y, in either order
RecordsOf(x, y) ==
    {k \in 1..Len(relationships) :
        \/ relationships[k].A = x /\ relationships[k].B = y
        \/ relationships[k].A = y /\ relationships[k].B = x}

RosterNameSet == {characters[i].name : i \in 1..Len(characters)}

SelfcestCount == Cardinality({k \in 1..Len(relationships) : relationships[k].selfcest})

\* C8 as claimed: a roster of N characters gives N(N+1)/2 records, each
\* unordered pair of its names (self-pairs included) exactly once, and
\* exactly N records with selfcest = true.
C8_EnumerationCounts ==
    pc # "start" =>
        LET N == Len(characters)
        IN  /\ 2 * Len(relationships) = N * (N + 1)
            /\ \A x, y \in RosterNameSet : Cardinality(RecordsOf(x, y)) = 1
            /\ SelfcestCount = N

\* C8 as amended: a roster of N rows gives N(N+1)/2 records; when the N
\* names are pairwise distinct, each unordered pair of names (self-pairs
\* included) appears exactly once and exactly N records have selfcest = true.
C8_EnumerationCountsDistinctNames ==
    pc # "start" =>
        LET N == Len(characters)
        IN  /\ 2 * Len(relationships) = N * (N + 1)
            /\ Cardinality(RosterNameSet) = N =>
                  /\ \A x, y \in RosterNameSet : Cardinality(RecordsOf(x, y)) = 1
                  /\ SelfcestCount = N

\* C8 witness: three characters of distinct names, six records
C8_Witness ==
    /\ pc # "start"
    /\ Len(characters) = 3
    /\ Cardinality(RosterNameSet) = 3
    /\ Len(relationships) = 6
    /\ SelfcestCount = 3

\* whether the heading text begins with a numeral
BeginsWithNumeral(t) ==
    Len(t) > 0 /\ t[1] \in {"0", "1", "2", "3", "4", "5", "6", "7", "8", "9"}

\* C9: on a response that is not a 429 get_work_count returns a count; the
\* count is 0 when the heading is absent (the main container absent
\* included) or its text does not begin with a numeral; a heading "1,234"
\* gives 1234.
C9_MissingMarkupIsZero ==
    (outcome # NoOutcome /\ response.status # 429) =>
        /\ outcome.kind = "count"
        /\ (~response.main \/ ~response.heading \/ ~BeginsWithNumeral(response.text))
              => outcome.count = 0
        /\ (response.heading /\ response.text \in {Text1234, Text1234Found})
              => outcome.count = 1234

\* C10: the first search request follows no sleep; every later request
\* directly follows one sleep, which directly follows the previous
\* response; every response directly follows its request; after a 429
\* nothing more is requested or slept.
C10_PacingAlternates ==
    /\ \A i \in 1..Len(log) :
          /\ log[i].ev = "request" => (i = 1 \/ log[i - 1].ev = "sleep")
          /\ log[i].ev = "sleep" => (i > 1 /\ log[i - 1].ev = "response")
          /\ log[i].ev = "response" => (i > 1 /\ log[i - 1].ev = "request")
    /\ \A i \in 1..Len(log) :
          (log[i].ev = "response" /\ log[i].status = 429) => i = Len(log)
    /\ (pc = "await") = (Len(log) > 0 /\ log[Len(log)].ev = "request")

\* C10 witness: request, response, sleep, request, 429
C10_Witness ==
    /\ Len(log) = 5
    /\ log[3].ev = "sleep"
    /\ log[5].status = 429
    /\ RunEnded

====
